---- MODULE Spec2Model ----
(***************************************************************************)
(* The echo program: five instruction handlers over account buffers.       *)
(*   Echo                          write once to an all-zero buffer        *)
(*   InitializeAuthorizedEcho      create an authority-gated buffer (PDA)  *)
(*   AuthorizedEcho                overwrite the payload of such a buffer  *)
(*   InitializeVendingMachineEcho  create a priced buffer (PDA)            *)
(*   VendingMachineEcho            burn `price` tokens, overwrite payload  *)
(* Every handler runs to completion inside one transaction; the ledger     *)
(* keeps its account changes only when it returns Ok.                      *)
(***************************************************************************)
EXTENDS Integers, Sequences, FiniteSets, TLC

(* ------------------------------ bounds --------------------------------- *)
\* longest instruction data of the small inputs
MaxData == 2
\* longest payload region of a created buffer
MaxPayload == 1

(* ------------------------- program constants --------------------------- *)
AUTH_BUFF_HEADER_SIZE == 9
VENDING_MACHINE_BUFF_HEADER_SIZE == 9
\* Pubkey::find_program_address starts its search at bump 255
MAX_BUMP == 255

(* ------------------------------ universe ------------------------------- *)
Users == {"alice", "bob"}
Mints == {"mintA", "mintB"}
TokAccts == {"tokA", "tokB"}
BufferSeeds == {258}
Prices == {257}
DataBytes == {0, 1}

\* An address: a plain key (tag "") or a program-derived address, which is
\* the hash of its seeds; the hash is collision-resistant, so the derived
\* address is modelled by the tuple of seeds it was derived from.
Key(name) == [tag |-> "", key |-> name, seed |-> <<>>, bump |-> 0]

SYSTEM_PROGRAM_ID == Key("system")
TOKEN_PROGRAM_ID == Key("token")

Min(a, b) == IF a < b THEN a ELSE b

Zeros(n) == [i \in 1..n |-> 0]

\* u64::to_le_bytes
ToLeBytes(n) == [i \in 1..8 |-> IF i <= 3 THEN (n \div (256 ^ (i - 1))) % 256 ELSE 0]

\* amount < price, price given by its 8 little-endian bytes (amounts of the
\* model stay below 2^24)
AmountLess(amount, le) ==
    IF \E i \in 4..8 : le[i] # 0
    THEN TRUE
    ELSE amount < le[1] + 256 * le[2] + 65536 * le[3]

\* the value of a price the model can afford (upper bytes zero)
LeValue(le) == le[1] + 256 * le[2] + 65536 * le[3]

(* ------------------------------ headers -------------------------------- *)
\* borsh layout of AuthorizedBufferHeader { buffer_seed: u64, bump_seed: u8 }
EncodeAuthHeader(h) == h.buffer_seed \o <<h.bump_seed>>

DecodeAuthHeader(bytes) ==
    [buffer_seed |-> SubSeq(bytes, 1, 8), bump_seed |-> bytes[9]]

\* mutant: the header is written in the field order of the authorized header
EncodeVendHeader_PriceFirst(h) == h.price \o <<h.bump_seed>>

\* borsh layout of VendingMachineBufferHeader { bump_seed: u8, price: u64 }
EncodeVendHeader(h) == <<h.bump_seed>> \o h.price

\* mutant: the header is read in the field order of the authorized header
DecodeVendHeader_PriceFirst(bytes) ==
    [bump_seed |-> bytes[9], price |-> SubSeq(bytes, 1, 8)]

DecodeVendHeader(bytes) ==
    [bump_seed |-> bytes[1], price |-> SubSeq(bytes, 2, 9)]

(* ------------------------- address derivation -------------------------- *)
SumBytes(s) == s[1] + s[2] + s[3] + s[4] + s[5] + s[6] + s[7] + s[8]

KeyNum(name) ==
    CASE name = "alice" -> 1
      [] name = "bob" -> 2
      [] name = "mintA" -> 4
      [] name = "mintB" -> 6
      [] OTHER -> 0

\* whether the hash of the seeds lands on the ed25519 curve (no valid PDA)
OnCurve(tag, key, seed, bump) ==
    (Len(tag) + KeyNum(key) + SumBytes(seed) + bump) % 3 = 0

\* Pubkey::create_program_address(&[tag, key, seed, &[bump]], program_id)
CreateProgramAddress(tag, key, seed, bump) ==
    IF OnCurve(tag, key, seed, bump)
    THEN [ok |-> FALSE, addr |-> Key("")]
    ELSE [ok |-> TRUE, addr |-> [tag |-> tag, key |-> key, seed |-> seed, bump |-> bump]]

\* Pubkey::find_program_address(&[tag, key, seed], program_id): the largest
\* bump whose address is off the curve
FindBump(tag, key, seed) ==
    CHOOSE b \in 0..MAX_BUMP :
        /\ ~OnCurve(tag, key, seed, b)
        /\ \A c \in (b + 1)..MAX_BUMP : OnCurve(tag, key, seed, c)

FindProgramAddress(tag, key, seed) ==
    [addr |-> CreateProgramAddress(tag, key, seed, FindBump(tag, key, seed)).addr,
     bump |-> FindBump(tag, key, seed)]

AuthPda(u, s) == FindProgramAddress("authority", u, ToLeBytes(s)).addr
VendPda(m, p) == FindProgramAddress("vending_machine", m, ToLeBytes(p)).addr


\* the buffer accounts of the model: one plain account handed to Echo and
\* the canonical derived addresses of both authenticated kinds
PlainBuffer == Key("e1")
AuthPdas == {AuthPda(u, s) : u \in Users, s \in BufferSeeds}
VendPdas == {VendPda(m, p) : m \in Mints, p \in Prices}
BufferKeys == {PlainBuffer} \cup AuthPdas \cup VendPdas

\* rent: Rent::minimum_balance grows with the size of the account
MinimumBalance(size) == size

(* ------------------------------- state --------------------------------- *)
VARIABLES
    data,       \* data[k]: the bytes of buffer account k (<<>> before creation)
    created,    \* the buffer accounts that exist (hold lamports)
    lamports,   \* lamports[u]: the funds of user u
    token,      \* token[t]: the unpacked token account t
    last,       \* the invocation in flight: inputs, result, what it did
    echoed,     \* history: <<k, nz>> for every Echo that succeeded on k; nz: it left a non-zero byte
    initHeader, \* history: the header bytes written when k was initialized
    paid        \* history: paid[t]: the successful VendingMachineEcho calls paid from t

vars == <<data, created, lamports, token, last, echoed, initHeader, paid>>

AccountInfo(k, signer, writable) ==
    [key |-> k, is_signer |-> signer, is_writable |-> writable]

NoCalls == <<>>

Idle ==
    [op |-> "idle", accts |-> <<>>, data |-> <<>>, num |-> 0, size |-> 0,
     err |-> "Ok", calls |-> NoCalls, pre |-> <<>>, post |-> <<>>, tok |-> <<>>]

\* the bytes an account list's first account holds (nothing when the list is empty)
BufferOf(d, accts) == IF Len(accts) >= 1 THEN d[accts[1].key] ELSE <<>>

(* -------------------------------- Echo --------------------------------- *)
\* echo.rs Context::parse
EchoParse(accts) ==
    IF Len(accts) < 1 THEN "NotEnoughAccountKeys"
    ELSE IF ~accts[1].is_writable THEN "AccountMustBeWritable"
    ELSE "Ok"

\* mutant: only the first byte of the account is looked at
HasNonZeroData_FirstByte(buffer) == Len(buffer) > 0 /\ buffer[1] # 0

\* "if there is any non-zero data in the account, fail the instruction"
HasNonZeroData(buffer) == \E index \in 1..Len(buffer) : buffer[index] # 0

\* mutant: the copy stops one byte early
EchoCopy_OffByOne(buffer, d) ==
    [index \in 1..Len(buffer) |->
        IF index < Min(Len(buffer), Len(d)) THEN d[index] ELSE buffer[index]]

\* copy min(len(buffer), len(data)) bytes from the start of the buffer
EchoCopy(buffer, d) ==
    [index \in 1..Len(buffer) |->
        IF index <= Min(Len(buffer), Len(d)) THEN d[index] ELSE buffer[index]]

\* mutant: the length of the account is not checked before the scan
EchoProcess_NoLengthCheck(buffer, accts, d) ==
    IF EchoParse(accts) # "Ok"
    THEN [err |-> EchoParse(accts), buf |-> buffer, calls |-> NoCalls]
    ELSE IF HasNonZeroData(buffer)
    THEN [err |-> "AccountHasNonZeroData", buf |-> buffer, calls |-> NoCalls]
    ELSE [err |-> "Ok", buf |-> EchoCopy(buffer, d), calls |-> NoCalls]

\* echo.rs process: the result and the buffer as the handler leaves it
EchoProcess(buffer, accts, d) ==
    IF EchoParse(accts) # "Ok"
    THEN [err |-> EchoParse(accts), buf |-> buffer, calls |-> NoCalls]
    ELSE IF Len(buffer) = 0
    THEN [err |-> "AccountNotInitialized", buf |-> buffer, calls |-> NoCalls]
    ELSE IF HasNonZeroData(buffer)
    THEN [err |-> "AccountHasNonZeroData", buf |-> buffer, calls |-> NoCalls]
    ELSE [err |-> "Ok", buf |-> EchoCopy(buffer, d), calls |-> NoCalls]

(* ------------------------ authenticated payload ------------------------ *)
\* mutant: bytes past the end of the data keep their old value
PayloadWrite_Merge(buffer, header_size, d) ==
    [index \in 1..Len(buffer) |->
        IF index <= header_size THEN buffer[index]
        ELSE IF index - header_size <= Len(d) THEN d[index - header_size]
        ELSE buffer[index]]

\* mutant: the payload starts one byte early, on the last byte of the header
PayloadWrite_OffByOne(buffer, header_size, d) ==
    [index \in 1..Len(buffer) |->
        IF index < header_size THEN buffer[index]
        ELSE IF index - header_size + 1 <= Len(d) THEN d[index - header_size + 1]
        ELSE 0]

\* mutant: data longer than the payload region is appended to the account
PayloadWrite_Appends(buffer, header_size, d) ==
    [index \in 1..(header_size + (IF Len(d) > Len(buffer) - header_size
                                  THEN Len(d) ELSE Len(buffer) - header_size)) |->
        IF index <= header_size THEN buffer[index]
        ELSE IF index - header_size <= Len(d) THEN d[index - header_size]
        ELSE 0]

\* the loop over the rest of the account's data, beyond the header
PayloadWrite(buffer, header_size, d) ==
    [index \in 1..Len(buffer) |->
        IF index <= header_size THEN buffer[index]
        ELSE IF index - header_size <= Len(d) THEN d[index - header_size]
        ELSE 0]

(* ---------------------------- AuthorizedEcho --------------------------- *)
\* mutant: the authority's signature is not required
AuthorizedEchoParse_NoSigner(accts) ==
    IF Len(accts) < 2 THEN "NotEnoughAccountKeys"
    ELSE IF ~accts[1].is_writable THEN "AccountMustBeWritable"
    ELSE "Ok"

\* authorized_echo.rs Context::parse
AuthorizedEchoParse(accts) ==
    IF Len(accts) < 2 THEN "NotEnoughAccountKeys"
    ELSE IF ~accts[1].is_writable THEN "AccountMustBeWritable"
    ELSE IF ~accts[2].is_signer THEN "MissingRequiredSignature"
    ELSE "Ok"

\* the address the stored header derives to, for the authority passed
AuthorizedEchoPda(buffer, authority_key) ==
    CreateProgramAddress("authority", authority_key.key,
        DecodeAuthHeader(buffer).buffer_seed, DecodeAuthHeader(buffer).bump_seed)

\* mutant: a derivation that fails is reported as an address mismatch
AuthorizedEchoProcess_MapsSeedError(buffer, accts, d) ==
    IF AuthorizedEchoParse(accts) # "Ok"
    THEN [err |-> AuthorizedEchoParse(accts), buf |-> buffer, calls |-> NoCalls]
    ELSE IF Len(buffer) < AUTH_BUFF_HEADER_SIZE
    THEN [err |-> "AccountNotInitialized", buf |-> buffer, calls |-> NoCalls]
    ELSE IF \/ ~AuthorizedEchoPda(buffer, accts[2].key).ok
            \/ AuthorizedEchoPda(buffer, accts[2].key).addr # accts[1].key
    THEN [err |-> "InvalidAccountAddress", buf |-> buffer, calls |-> NoCalls]
    ELSE [err |-> "Ok", buf |-> PayloadWrite(buffer, AUTH_BUFF_HEADER_SIZE, d),
          calls |-> NoCalls]

\* mutant: the length is not checked, and a header cut short fails to decode
AuthorizedEchoProcess_NoLengthCheck(buffer, accts, d) ==
    IF AuthorizedEchoParse(accts) # "Ok"
    THEN [err |-> AuthorizedEchoParse(accts), buf |-> buffer, calls |-> NoCalls]
    ELSE IF Len(buffer) < AUTH_BUFF_HEADER_SIZE
    THEN [err |-> "BorshIoError", buf |-> buffer, calls |-> NoCalls]
    ELSE IF ~AuthorizedEchoPda(buffer, accts[2].key).ok
    THEN [err |-> "InvalidSeeds", buf |-> buffer, calls |-> NoCalls]
    ELSE IF AuthorizedEchoPda(buffer, accts[2].key).addr # accts[1].key
    THEN [err |-> "InvalidAccountAddress", buf |-> buffer, calls |-> NoCalls]
    ELSE [err |-> "Ok", buf |-> PayloadWrite(buffer, AUTH_BUFF_HEADER_SIZE, d),
          calls |-> NoCalls]

\* authorized_echo.rs process
AuthorizedEchoProcess(buffer, accts, d) ==
    IF AuthorizedEchoParse(accts) # "Ok"
    THEN [err |-> AuthorizedEchoParse(accts), buf |-> buffer, calls |-> NoCalls]
    ELSE IF Len(buffer) < AUTH_BUFF_HEADER_SIZE
    THEN [err |-> "AccountNotInitialized", buf |-> buffer, calls |-> NoCalls]
    ELSE IF ~AuthorizedEchoPda(buffer, accts[2].key).ok
    THEN [err |-> "InvalidSeeds", buf |-> buffer, calls |-> NoCalls]
    ELSE IF AuthorizedEchoPda(buffer, accts[2].key).addr # accts[1].key
    THEN [err |-> "InvalidAccountAddress", buf |-> buffer, calls |-> NoCalls]
    ELSE [err |-> "Ok", buf |-> PayloadWrite(buffer, AUTH_BUFF_HEADER_SIZE, d),
          calls |-> NoCalls]


(* -------------------------- external services -------------------------- *)
\* the accounts the token program unpacks as a Mint / as a token Account
IsMint(k) == k.tag = "" /\ k.key \in Mints
IsTokenAccount(k) == k.tag = "" /\ k.key \in TokAccts

Call(kind, from, to, owner, amount, space, ok) ==
    [kind |-> kind, from |-> from, to |-> to, owner |-> owner,
     amount |-> amount, space |-> space, ok |-> ok]

\* mutant: an address in use is not refused
SystemCreateAccount_NoInUseCheck(cr, lam, from, to, amount) ==
    IF lam[from.key] < amount THEN "SystemError.ResultWithNegativeLamports"
    ELSE "Ok"

\* the system program's create_account: the address must be unused and the
\* payer must hold the lamports
SystemCreateAccount(cr, lam, from, to, amount) ==
    IF to \in cr THEN "SystemError.AccountAlreadyInUse"
    ELSE IF lam[from.key] < amount THEN "SystemError.ResultWithNegativeLamports"
    ELSE "Ok"

\* the token program's burn, for an owner and mint the caller has checked
TokenBurn(tok, account, amount) ==
    IF tok[account.key].frozen THEN "TokenError.AccountFrozen"
    ELSE IF tok[account.key].amount < amount THEN "TokenError.InsufficientFunds"
    ELSE "Ok"

(* -------------------------- VendingMachineEcho ------------------------- *)
\* mutant: the user's signature is checked before the token account's writability
VendingMachineEchoParse_SignerFirst(accts) ==
    IF Len(accts) < 5 THEN "NotEnoughAccountKeys"
    ELSE IF ~accts[1].is_writable THEN "AccountMustBeWritable"
    ELSE IF ~accts[2].is_signer THEN "MissingRequiredSignature"
    ELSE IF ~accts[3].is_writable THEN "AccountMustBeWritable"
    ELSE "Ok"

\* vending_machine_echo.rs Context::parse
VendingMachineEchoParse(accts) ==
    IF Len(accts) < 5 THEN "NotEnoughAccountKeys"
    ELSE IF ~accts[1].is_writable THEN "AccountMustBeWritable"
    ELSE IF ~accts[3].is_writable THEN "AccountMustBeWritable"
    ELSE IF ~accts[2].is_signer THEN "MissingRequiredSignature"
    ELSE "Ok"

\* mutant: the owner of the token account is not compared with the user
VendingMachineEchoTokenChecks_NoOwnerCheck(tok, accts) ==
    IF ~IsMint(accts[4].key) THEN "InvalidAccountData"
    ELSE IF ~IsTokenAccount(accts[3].key) THEN "InvalidAccountData"
    ELSE IF tok[accts[3].key.key].mint # accts[4].key THEN "InvalidAccountData"
    ELSE "Ok"

\* the unpacking of the mint and the token account and the owner and mint checks
VendingMachineEchoTokenChecks(tok, accts) ==
    IF ~IsMint(accts[4].key) THEN "InvalidAccountData"
    ELSE IF ~IsTokenAccount(accts[3].key) THEN "InvalidAccountData"
    ELSE IF tok[accts[3].key.key].owner # accts[2].key THEN "InvalidAccountData"
    ELSE IF tok[accts[3].key.key].mint # accts[4].key THEN "InvalidAccountData"
    ELSE "Ok"

\* mutant: the balance is left for the token program to check
InsufficientFunds_Unchecked(amount, price) == FALSE

\* user_token_account.amount < buffer_header.price
InsufficientFunds(amount, price) == AmountLess(amount, price)

\* the address the stored header derives to, for the mint passed
VendingMachineEchoPda(buffer, mint_key) ==
    CreateProgramAddress("vending_machine", mint_key.key,
        DecodeVendHeader(buffer).price, DecodeVendHeader(buffer).bump_seed)

\* mutant: the burn is issued for one token, whatever the price
BurnCall_OneToken(accts, price, ok) ==
    Call("burn", accts[3].key, accts[4].key, accts[2].key, 1, 0, ok)

\* spl_token::instruction::burn(token_program, account, mint, authority, &[], price)
BurnCall(accts, price, ok) ==
    Call("burn", accts[3].key, accts[4].key, accts[2].key, LeValue(price), 0, ok)

\* mutant: the result of the burn is dropped and the payload written anyway
VendingMachineEchoBurnAndWrite_IgnoresFailure(buffer, tok, accts, d) ==
    IF accts[5].key # TOKEN_PROGRAM_ID
    THEN [err |-> "IncorrectProgramId", buf |-> buffer, calls |-> NoCalls]
    ELSE [err |-> "Ok",
          buf |-> PayloadWrite(buffer, VENDING_MACHINE_BUFF_HEADER_SIZE, d),
          calls |-> <<BurnCall(accts, DecodeVendHeader(buffer).price,
                        TokenBurn(tok, accts[3].key,
                                  LeValue(DecodeVendHeader(buffer).price)) = "Ok")>>]

\* the burn and the payload write, once every check has passed
VendingMachineEchoBurnAndWrite(buffer, tok, accts, d) ==
    IF accts[5].key # TOKEN_PROGRAM_ID
    THEN [err |-> "IncorrectProgramId", buf |-> buffer, calls |-> NoCalls]
    ELSE IF TokenBurn(tok, accts[3].key, LeValue(DecodeVendHeader(buffer).price)) # "Ok"
    THEN [err |-> TokenBurn(tok, accts[3].key, LeValue(DecodeVendHeader(buffer).price)),
          buf |-> buffer,
          calls |-> <<BurnCall(accts, DecodeVendHeader(buffer).price, FALSE)>>]
    ELSE [err |-> "Ok",
          buf |-> PayloadWrite(buffer, VENDING_MACHINE_BUFF_HEADER_SIZE, d),
          calls |-> <<BurnCall(accts, DecodeVendHeader(buffer).price, TRUE)>>]

\* mutant: the derived address is not compared with the buffer's
VendingMachineEchoProcess_NoAddressCheck(buffer, tok, accts, d) ==
    IF VendingMachineEchoParse(accts) # "Ok"
    THEN [err |-> VendingMachineEchoParse(accts), buf |-> buffer, calls |-> NoCalls]
    ELSE IF VendingMachineEchoTokenChecks(tok, accts) # "Ok"
    THEN [err |-> VendingMachineEchoTokenChecks(tok, accts), buf |-> buffer,
          calls |-> NoCalls]
    ELSE IF Len(buffer) < VENDING_MACHINE_BUFF_HEADER_SIZE
    THEN [err |-> "AccountNotInitialized", buf |-> buffer, calls |-> NoCalls]
    ELSE IF InsufficientFunds(tok[accts[3].key.key].amount, DecodeVendHeader(buffer).price)
    THEN [err |-> "InsufficientFunds", buf |-> buffer, calls |-> NoCalls]
    ELSE IF ~VendingMachineEchoPda(buffer, accts[4].key).ok
    THEN [err |-> "InvalidSeeds", buf |-> buffer, calls |-> NoCalls]
    ELSE VendingMachineEchoBurnAndWrite(buffer, tok, accts, d)

\* vending_machine_echo.rs process
VendingMachineEchoProcess(buffer, tok, accts, d) ==
    IF VendingMachineEchoParse(accts) # "Ok"
    THEN [err |-> VendingMachineEchoParse(accts), buf |-> buffer, calls |-> NoCalls]
    ELSE IF VendingMachineEchoTokenChecks(tok, accts) # "Ok"
    THEN [err |-> VendingMachineEchoTokenChecks(tok, accts), buf |-> buffer,
          calls |-> NoCalls]
    ELSE IF Len(buffer) < VENDING_MACHINE_BUFF_HEADER_SIZE
    THEN [err |-> "AccountNotInitialized", buf |-> buffer, calls |-> NoCalls]
    ELSE IF InsufficientFunds(tok[accts[3].key.key].amount, DecodeVendHeader(buffer).price)
    THEN [err |-> "InsufficientFunds", buf |-> buffer, calls |-> NoCalls]
    ELSE IF ~VendingMachineEchoPda(buffer, accts[4].key).ok
    THEN [err |-> "InvalidSeeds", buf |-> buffer, calls |-> NoCalls]
    ELSE IF VendingMachineEchoPda(buffer, accts[4].key).addr # accts[1].key
    THEN [err |-> "InvalidAccountAddress", buf |-> buffer, calls |-> NoCalls]
    ELSE VendingMachineEchoBurnAndWrite(buffer, tok, accts, d)


(* --------------------- InitializeVendingMachineEcho -------------------- *)
\* initialize_vending_machine_echo.rs Context::parse
InitializeVendingMachineEchoParse(accts) ==
    IF Len(accts) < 4 THEN "NotEnoughAccountKeys"
    ELSE IF ~accts[1].is_writable THEN "AccountMustBeWritable"
    ELSE IF ~accts[3].is_signer THEN "MissingRequiredSignature"
    ELSE IF accts[4].key # SYSTEM_PROGRAM_ID THEN "InvalidProgramAddress"
    ELSE "Ok"

CreateCall(from, to, size, ok) ==
    Call("create_account", from, to, Key("echo"), MinimumBalance(size), size, ok)

\* create_account through invoke_signed, then the header written over the
\* first bytes of the new, zeroed account
CreateAndWriteHeader(buffer, cr, lam, accts, size, header) ==
    IF SystemCreateAccount(cr, lam, accts[3].key, accts[1].key, MinimumBalance(size)) # "Ok"
    THEN [err |-> SystemCreateAccount(cr, lam, accts[3].key, accts[1].key,
                                      MinimumBalance(size)),
          buf |-> buffer,
          calls |-> <<CreateCall(accts[3].key, accts[1].key, size, FALSE)>>]
    ELSE [err |-> "Ok",
          buf |-> header \o Zeros(size - Len(header)),
          calls |-> <<CreateCall(accts[3].key, accts[1].key, size, TRUE)>>]

\* mutant: the buffer size is validated after the account has been created
InitializeVendingMachineEchoProcess_LateSizeCheck(buffer, cr, lam, accts, price, size) ==
    IF InitializeVendingMachineEchoParse(accts) # "Ok"
    THEN [err |-> InitializeVendingMachineEchoParse(accts), buf |-> buffer,
          calls |-> NoCalls]
    ELSE IF ~IsMint(accts[2].key)
    THEN [err |-> "InvalidAccountData", buf |-> buffer, calls |-> NoCalls]
    ELSE IF accts[1].key #
            FindProgramAddress("vending_machine", accts[2].key.key, ToLeBytes(price)).addr
    THEN [err |-> "InvalidAccountAddress", buf |-> buffer, calls |-> NoCalls]
    ELSE LET r == CreateAndWriteHeader(buffer, cr, lam, accts, size,
                    EncodeVendHeader(
                        [bump_seed |-> FindProgramAddress("vending_machine",
                                           accts[2].key.key, ToLeBytes(price)).bump,
                         price |-> ToLeBytes(price)]))
         IN IF r.err = "Ok" /\ size <= VENDING_MACHINE_BUFF_HEADER_SIZE
            THEN [r EXCEPT !.err = "InvalidInstructionInput"]
            ELSE r

\* initialize_vending_machine_echo.rs process
InitializeVendingMachineEchoProcess(buffer, cr, lam, accts, price, size) ==
    IF InitializeVendingMachineEchoParse(accts) # "Ok"
    THEN [err |-> InitializeVendingMachineEchoParse(accts), buf |-> buffer,
          calls |-> NoCalls]
    ELSE IF size <= VENDING_MACHINE_BUFF_HEADER_SIZE
    THEN [err |-> "InvalidInstructionInput", buf |-> buffer, calls |-> NoCalls]
    ELSE IF ~IsMint(accts[2].key)
    THEN [err |-> "InvalidAccountData", buf |-> buffer, calls |-> NoCalls]
    ELSE IF accts[1].key #
            FindProgramAddress("vending_machine", accts[2].key.key, ToLeBytes(price)).addr
    THEN [err |-> "InvalidAccountAddress", buf |-> buffer, calls |-> NoCalls]
    ELSE CreateAndWriteHeader(buffer, cr, lam, accts, size,
            EncodeVendHeader(
                [bump_seed |-> FindProgramAddress("vending_machine", accts[2].key.key,
                                                  ToLeBytes(price)).bump,
                 price |-> ToLeBytes(price)]))

(* ----------------------- InitializeAuthorizedEcho ---------------------- *)
\* accounts: buffer, authority, payer, system program
InitializeAuthorizedEchoParse(accts) ==
    IF Len(accts) < 4 THEN "NotEnoughAccountKeys"
    ELSE IF ~accts[1].is_writable THEN "AccountMustBeWritable"
    ELSE IF ~accts[3].is_signer THEN "MissingRequiredSignature"
    ELSE IF accts[4].key # SYSTEM_PROGRAM_ID THEN "InvalidProgramAddress"
    ELSE "Ok"

\* validate, find the address, create the account, write the header
InitializeAuthorizedEchoProcess(buffer, cr, lam, accts, buffer_seed, size) ==
    IF InitializeAuthorizedEchoParse(accts) # "Ok"
    THEN [err |-> InitializeAuthorizedEchoParse(accts), buf |-> buffer,
          calls |-> NoCalls]
    ELSE IF size <= AUTH_BUFF_HEADER_SIZE
    THEN [err |-> "InvalidInstructionInput", buf |-> buffer, calls |-> NoCalls]
    ELSE IF accts[1].key #
            FindProgramAddress("authority", accts[2].key.key, ToLeBytes(buffer_seed)).addr
    THEN [err |-> "InvalidAccountAddress", buf |-> buffer, calls |-> NoCalls]
    ELSE CreateAndWriteHeader(buffer, cr, lam, accts, size,
            EncodeAuthHeader(
                [buffer_seed |-> ToLeBytes(buffer_seed),
                 bump_seed |-> FindProgramAddress("authority", accts[2].key.key,
                                                  ToLeBytes(buffer_seed)).bump]))

(* ------------------------------- inputs -------------------------------- *)
\* instruction data: every short byte string, and one long enough to look
\* like a header followed by a payload
ShortData == UNION {[1..n -> DataBytes] : n \in 0..MaxData}
ForgedData ==
    {EncodeAuthHeader([buffer_seed |-> ToLeBytes(s), bump_seed |-> MAX_BUMP]) \o <<1>> :
        s \in BufferSeeds}
\* the header of a vending machine of every mint, followed by a payload byte
ForgedVendData ==
    {EncodeVendHeader([bump_seed |-> FindBump("vending_machine", m, ToLeBytes(p)),
                       price |-> ToLeBytes(p)]) \o <<1>> : m \in {"mintA"}, p \in Prices}
EchoData == ShortData \cup ForgedData \cup ForgedVendData

BufferSizes == AUTH_BUFF_HEADER_SIZE..(AUTH_BUFF_HEADER_SIZE + MaxPayload)

\* the lengths the plain buffer may have been allocated with
PlainLens == {MaxPayload, AUTH_BUFF_HEADER_SIZE + MaxPayload}

\* every prefix of an account list that is too short for its handler
Prefixes(accts) == {SubSeq(accts, 1, n) : n \in 0..(Len(accts) - 1)}

EchoAccounts ==
    {<<AccountInfo(b, FALSE, w)>> : b \in BufferKeys, w \in BOOLEAN}

AuthorizedEchoAccounts ==
    {<<AccountInfo(b, FALSE, w), AccountInfo(Key(a), s, FALSE)>> :
        b \in BufferKeys, w \in BOOLEAN, a \in Users, s \in BOOLEAN}

InitializeAccounts(keys) ==
    {<<AccountInfo(b, FALSE, w), AccountInfo(Key(k), FALSE, FALSE),
       AccountInfo(Key(p), s, s), AccountInfo(sys, FALSE, FALSE)>> :
        b \in BufferKeys, w \in BOOLEAN, k \in keys, p \in Users, s \in BOOLEAN,
        sys \in {SYSTEM_PROGRAM_ID, TOKEN_PROGRAM_ID}}

VendingMachineEchoAccounts ==
    {<<AccountInfo(b, FALSE, w), AccountInfo(Key(u), s, FALSE),
       AccountInfo(Key(t), FALSE, tw), AccountInfo(Key(m), FALSE, TRUE),
       AccountInfo(prog, FALSE, FALSE)>> :
        b \in BufferKeys, w \in BOOLEAN, u \in Users, s \in BOOLEAN,
        t \in TokAccts, tw \in BOOLEAN, m \in Mints \cup {"tokA"},
        prog \in {TOKEN_PROGRAM_ID, SYSTEM_PROGRAM_ID}}

WithPrefixes(lists) == lists \cup Prefixes(CHOOSE l \in lists : TRUE)


(* ------------------------------- ledger -------------------------------- *)
\* the tokens each token account starts with
InitialAmount == 600

\* what alice starts with: the rent of one buffer of the largest size, which
\* she has either spent on the plain buffer or still holds
InitialLamports == MinimumBalance(AUTH_BUFF_HEADER_SIZE + MaxPayload)

Invocation(op, accts, d, num, size, buffer, r) ==
    [op |-> op, accts |-> accts, data |-> d, num |-> num, size |-> size,
     err |-> r.err, calls |-> r.calls, pre |-> buffer, post |-> r.buf, tok |-> token]

\* the ledger keeps the buffer a handler wrote only if the handler returned Ok
CommitData(accts, r) ==
    IF r.err = "Ok" THEN [data EXCEPT ![accts[1].key] = r.buf] ELSE data

\* mutant: the burn debits every token account
CommitToken_EveryAccount(r) ==
    IF r.err = "Ok" /\ r.calls # NoCalls /\ r.calls[1].kind = "burn"
    THEN [t \in TokAccts |-> [token[t] EXCEPT !.amount = @ - r.calls[1].amount]]
    ELSE token

\* the token ledger after the burns of a successful invocation
CommitToken(r) ==
    IF r.err = "Ok" /\ r.calls # NoCalls /\ r.calls[1].kind = "burn"
    THEN [token EXCEPT ![r.calls[1].from.key].amount = @ - r.calls[1].amount]
    ELSE token

Init ==
    /\ \E n \in {0} \cup PlainLens :
          /\ data = [k \in BufferKeys |-> IF k = PlainBuffer THEN Zeros(n) ELSE <<>>]
          /\ created = IF n > 0 THEN {PlainBuffer} ELSE {}
          /\ lamports = [u \in Users |->
                           IF u = "alice" /\ n = 0 THEN InitialLamports ELSE 0]
    /\ token = [t \in TokAccts |->
                  IF t = "tokA"
                  THEN [owner |-> Key("alice"), mint |-> Key("mintA"),
                        amount |-> InitialAmount, frozen |-> FALSE]
                  ELSE [owner |-> Key("bob"), mint |-> Key("mintB"),
                        amount |-> InitialAmount, frozen |-> TRUE]]
    /\ last = Idle
    /\ echoed = {}
    /\ initHeader = [k \in BufferKeys |-> <<>>]
    /\ paid = [t \in TokAccts |-> 0]

(* ------------------------------- actions ------------------------------- *)
\* process_instruction on bytes that decode to no instruction
Undecodable ==
    /\ last.op = "idle"
    /\ last' = [Idle EXCEPT !.op = "Undecodable", !.err = "InvalidInstructionData",
                            !.tok = token]
    /\ UNCHANGED <<data, created, lamports, token, echoed, initHeader, paid>>

Echo ==
    /\ last.op = "idle"
    /\ \E accts \in WithPrefixes(EchoAccounts), d \in EchoData :
        LET buffer == BufferOf(data, accts)
            r == EchoProcess(buffer, accts, d)
        IN /\ last' = Invocation("Echo", accts, d, 0, 0, buffer, r)
           /\ data' = CommitData(accts, r)
    /\ UNCHANGED <<created, lamports, token, echoed, initHeader, paid>>

AuthorizedEcho ==
    /\ last.op = "idle"
    /\ \E accts \in WithPrefixes(AuthorizedEchoAccounts), d \in ShortData :
        LET buffer == BufferOf(data, accts)
            r == AuthorizedEchoProcess(buffer, accts, d)
        IN /\ last' = Invocation("AuthorizedEcho", accts, d, 0, 0, buffer, r)
           /\ data' = CommitData(accts, r)
    /\ UNCHANGED <<created, lamports, token, echoed, initHeader, paid>>

VendingMachineEcho ==
    /\ last.op = "idle"
    /\ \E accts \in WithPrefixes(VendingMachineEchoAccounts), d \in ShortData :
        LET buffer == BufferOf(data, accts)
            r == VendingMachineEchoProcess(buffer, token, accts, d)
        IN /\ last' = Invocation("VendingMachineEcho", accts, d, 0, 0, buffer, r)
           /\ data' = CommitData(accts, r)
           /\ token' = CommitToken(r)
           /\ paid' = IF r.err = "Ok" THEN [paid EXCEPT ![accts[3].key.key] = @ + 1]
                      ELSE paid
    /\ UNCHANGED <<created, lamports, echoed, initHeader>>

\* the ledger after a successful create_account and header write
CommitCreate(accts, size, r) ==
    /\ data' = CommitData(accts, r)
    /\ created' = IF r.err = "Ok" THEN created \cup {accts[1].key} ELSE created
    /\ lamports' = IF r.err = "Ok"
                   THEN [lamports EXCEPT ![accts[3].key.key] = @ - MinimumBalance(size)]
                   ELSE lamports
    /\ initHeader' = IF r.err = "Ok"
                     THEN [initHeader EXCEPT ![accts[1].key] =
                              SubSeq(r.buf, 1, AUTH_BUFF_HEADER_SIZE)]
                     ELSE initHeader

InitializeAuthorizedEcho ==
    /\ last.op = "idle"
    /\ \E accts \in WithPrefixes(InitializeAccounts(Users)),
          buffer_seed \in BufferSeeds, size \in BufferSizes :
        LET buffer == BufferOf(data, accts)
            r == InitializeAuthorizedEchoProcess(buffer, created, lamports, accts,
                                                 buffer_seed, size)
        IN /\ last' = Invocation("InitializeAuthorizedEcho", accts, <<>>, buffer_seed,
                                 size, buffer, r)
           /\ CommitCreate(accts, size, r)
    /\ UNCHANGED <<token, echoed, paid>>

InitializeVendingMachineEcho ==
    /\ last.op = "idle"
    /\ \E accts \in WithPrefixes(InitializeAccounts(Mints \cup {"tokA"})),
          price \in Prices, size \in BufferSizes :
        LET buffer == BufferOf(data, accts)
            r == InitializeVendingMachineEchoProcess(buffer, created, lamports, accts,
                                                     price, size)
        IN /\ last' = Invocation("InitializeVendingMachineEcho", accts, <<>>, price,
                                 size, buffer, r)
           /\ CommitCreate(accts, size, r)
    /\ UNCHANGED <<token, echoed, paid>>

\* the transaction's result reaches its submitter
Return ==
    /\ last.op # "idle"
    /\ last' = Idle
    /\ echoed' = IF last.op = "Echo" /\ last.err = "Ok"
                 THEN echoed \cup {<<last.accts[1].key,
                                     \E i \in 1..Len(last.post) : last.post[i] # 0>>}
                 ELSE echoed
    /\ UNCHANGED <<data, created, lamports, token, initHeader, paid>>

Next ==
    \/ Undecodable
    \/ Echo
    \/ InitializeAuthorizedEcho
    \/ AuthorizedEcho
    \/ InitializeVendingMachineEcho
    \/ VendingMachineEcho
    \/ Return

Spec == Init /\ [][Next]_vars


(* ======================================================================= *)
(*                               properties                                *)
(* ======================================================================= *)
\* the buffer account of the invocation in flight is as it was before it
BufferUntouched ==
    /\ last.post = last.pre
    /\ Len(last.accts) >= 1 => data[last.accts[1].key] = last.pre

IsZero(bytes) == \A i \in 1..Len(bytes) : bytes[i] = 0

(* ------------------------------- C1 ------------------------------------ *)
\* the authority passed signed, and the header stored in the buffer account
\* derives, with the authority's key, to the buffer account's own address
C1_Designated ==
    /\ Len(last.accts) = 2
    /\ last.accts[2].is_signer
    /\ Len(last.pre) >= AUTH_BUFF_HEADER_SIZE
    /\ LET pda == CreateProgramAddress("authority", last.accts[2].key.key,
                      SubSeq(last.pre, 1, 8), last.pre[9])
       IN pda.ok /\ pda.addr = last.accts[1].key

\* C1: an AuthorizedEcho succeeds only if the authority passed is a signer
\* and the buffer's own address is the address derived from "authority",
\* the authority's key and the seed and bump of the header stored in that
\* buffer (so the signer is the key the buffer's address was derived from);
\* every other call fails and leaves every byte of the buffer unchanged.
C1_OnlyAuthorityWrites ==
    last.op = "AuthorizedEcho" =>
        /\ last.err = "Ok" =>
              /\ C1_Designated
              /\ last.accts[1].key.tag = "authority"
              /\ last.accts[1].key.key = last.accts[2].key.key
        /\ ~C1_Designated => last.err # "Ok"
        /\ last.err # "Ok" => BufferUntouched

\* a successful AuthorizedEcho that changed the buffer
C1_Witness ==
    /\ last.op = "AuthorizedEcho"
    /\ last.err = "Ok"
    /\ data[last.accts[1].key] # last.pre

(* ------------------------------- C2 ------------------------------------ *)
\* C2 as stated: once an Echo has succeeded on a buffer, every later Echo
\* on that buffer fails with AccountHasNonZeroData and leaves it unchanged
\* (stated for the later calls that pass the buffer writable).
C2_WriteOnce ==
    (/\ last.op = "Echo"
     /\ Len(last.accts) = 1
     /\ last.accts[1].is_writable
     /\ \E nz \in BOOLEAN : <<last.accts[1].key, nz>> \in echoed)
    => (last.err = "AccountHasNonZeroData" /\ BufferUntouched)

\* C2, amended: once an Echo has succeeded on a buffer and left a non-zero
\* byte in it, every later Echo on that buffer fails and leaves it unchanged,
\* with AccountHasNonZeroData when the buffer is passed writable and with
\* AccountMustBeWritable when it is not.
C2_WriteOnceNonZero ==
    (/\ last.op = "Echo"
     /\ Len(last.accts) = 1
     /\ <<last.accts[1].key, TRUE>> \in echoed)
    => /\ last.err = IF last.accts[1].is_writable
                     THEN "AccountHasNonZeroData" ELSE "AccountMustBeWritable"
       /\ BufferUntouched

\* a later Echo on a buffer an earlier Echo wrote, refused for its data
C2_Witness ==
    /\ last.op = "Echo"
    /\ Len(last.accts) = 1
    /\ <<last.accts[1].key, TRUE>> \in echoed
    /\ last.accts[1].is_writable
    /\ last.err = "AccountHasNonZeroData"

(* ------------------------------- C3 ------------------------------------ *)
\* C3 as stated: Echo on a buffer of length 0 fails with
\* AccountNotInitialized, on a buffer holding a non-zero byte with
\* AccountHasNonZeroData, and the buffer is unchanged in both cases.
C3_EchoRefusals ==
    (last.op = "Echo" /\ Len(last.accts) = 1) =>
        /\ Len(last.pre) = 0 =>
              (last.err = "AccountNotInitialized" /\ BufferUntouched)
        /\ ~IsZero(last.pre) =>
              (last.err = "AccountHasNonZeroData" /\ BufferUntouched)

\* C3, amended: when the buffer is passed writable, Echo on a buffer of
\* length 0 fails with AccountNotInitialized and on a buffer holding a
\* non-zero byte at any position with AccountHasNonZeroData; passed
\* read-only it fails with AccountMustBeWritable; in every one of these
\* cases the buffer is byte for byte what it was.
C3_EchoRefusalsWritable ==
    (/\ last.op = "Echo"
     /\ Len(last.accts) = 1
     /\ (Len(last.pre) = 0 \/ ~IsZero(last.pre)))
    => /\ last.err = IF ~last.accts[1].is_writable THEN "AccountMustBeWritable"
                     ELSE IF Len(last.pre) = 0 THEN "AccountNotInitialized"
                     ELSE "AccountHasNonZeroData"
       /\ BufferUntouched

\* an Echo refused because a byte other than the first is non-zero
C3_Witness ==
    /\ last.op = "Echo"
    /\ Len(last.accts) = 1
    /\ Len(last.pre) > 1
    /\ last.pre[1] = 0
    /\ ~IsZero(last.pre)
    /\ last.data # <<>>
    /\ last.err = "AccountHasNonZeroData"

(* ------------------------------- C4 ------------------------------------ *)
\* C4: Echo on a writable all-zero buffer of length L > 0 succeeds for any
\* data of length D; afterwards the first min(L, D) bytes are the data's
\* and the bytes from min(L, D) to L are zero.
C4_EchoWrites ==
    (/\ last.op = "Echo"
     /\ Len(last.accts) = 1
     /\ last.accts[1].is_writable
     /\ Len(last.pre) > 0
     /\ IsZero(last.pre))
    => /\ last.err = "Ok"
       /\ Len(data[last.accts[1].key]) = Len(last.pre)
       /\ \A i \in 1..Len(last.pre) :
             data[last.accts[1].key][i] =
                IF i <= Len(last.data) /\ i <= Len(last.pre) THEN last.data[i] ELSE 0

\* an Echo of data longer than the buffer, cut to the buffer's length
C4_Witness ==
    /\ last.op = "Echo"
    /\ last.err = "Ok"
    /\ Len(last.data) > Len(last.pre)
    /\ ~IsZero(data[last.accts[1].key])


(* ------------------------------- C5 ------------------------------------ *)
AuthenticatedEchoes == {"AuthorizedEcho", "VendingMachineEcho"}

\* C5: after a successful AuthorizedEcho or VendingMachineEcho on a buffer
\* of length N >= 9, whatever its payload was, payload byte i is data[i]
\* for i < len(data) and 0 from there to N - 9.
C5_PayloadOverwritten ==
    (last.op \in AuthenticatedEchoes /\ last.err = "Ok") =>
        LET now == data[last.accts[1].key]
        IN /\ Len(last.pre) >= 9
           /\ Len(now) = Len(last.pre)
           /\ \A i \in 1..(Len(now) - 9) :
                 now[9 + i] = IF i <= Len(last.data) THEN last.data[i] ELSE 0

\* a successful echo of empty data over a payload an earlier echo wrote
C5_Witness ==
    /\ last.op = "VendingMachineEcho"
    /\ last.err = "Ok"
    /\ last.data = <<>>
    /\ last.pre[10] # 0
    /\ data[last.accts[1].key][10] = 0

(* ------------------------------- C6 ------------------------------------ *)
\* every check VendingMachineEcho makes before it compares the balance
\* with the price passes
C6_EarlierChecksPass ==
    /\ Len(last.accts) = 5
    /\ last.accts[1].is_writable
    /\ last.accts[3].is_writable
    /\ last.accts[2].is_signer
    /\ IsMint(last.accts[4].key)
    /\ IsTokenAccount(last.accts[3].key)
    /\ last.tok[last.accts[3].key.key].owner = last.accts[2].key
    /\ last.tok[last.accts[3].key.key].mint = last.accts[4].key
    /\ Len(last.pre) >= 9

\* C6: when every earlier check passes and the user's token amount is less
\* than the price stored in the header, VendingMachineEcho fails with
\* InsufficientFunds, issues no burn and changes no byte of the buffer;
\* a burn is only ever issued for an account holding at least the price.
C6_InsufficientFunds ==
    last.op = "VendingMachineEcho" =>
        /\ (/\ C6_EarlierChecksPass
            /\ AmountLess(last.tok[last.accts[3].key.key].amount, SubSeq(last.pre, 2, 9)))
           => /\ last.err = "InsufficientFunds"
              /\ last.calls = NoCalls
              /\ BufferUntouched
              /\ token = last.tok
        /\ \A i \in 1..Len(last.calls) :
              last.calls[i].kind = "burn" =>
                 /\ ~AmountLess(last.tok[last.calls[i].from.key].amount,
                                SubSeq(last.pre, 2, 9))
                 /\ last.tok[last.calls[i].from.key].amount >= last.calls[i].amount

\* a VendingMachineEcho on a priced buffer refused for a balance below the price
C6_Witness ==
    /\ last.op = "VendingMachineEcho"
    /\ C6_EarlierChecksPass
    /\ last.accts[1].key.tag = "vending_machine"
    /\ AmountLess(last.tok[last.accts[3].key.key].amount, SubSeq(last.pre, 2, 9))
    /\ last.err = "InsufficientFunds"

(* ------------------------------- C7 ------------------------------------ *)
\* the checks of each handler other than the comparison of addresses
C7_AuthorizedOtherChecks ==
    /\ Len(last.accts) = 2
    /\ last.accts[1].is_writable
    /\ last.accts[2].is_signer
    /\ Len(last.pre) >= 9
    /\ ~OnCurve("authority", last.accts[2].key.key, SubSeq(last.pre, 1, 8), last.pre[9])

C7_VendingOtherChecks ==
    /\ C6_EarlierChecksPass
    /\ ~AmountLess(last.tok[last.accts[3].key.key].amount, SubSeq(last.pre, 2, 9))
    /\ ~OnCurve("vending_machine", last.accts[4].key.key, SubSeq(last.pre, 2, 9),
                last.pre[1])

C7_InitializeOtherChecks ==
    /\ Len(last.accts) = 4
    /\ last.accts[1].is_writable
    /\ last.accts[3].is_signer
    /\ last.accts[4].key = SYSTEM_PROGRAM_ID
    /\ last.size > 9
    /\ IsMint(last.accts[2].key)

C7_Refused ==
    /\ last.err = "InvalidAccountAddress"
    /\ last.calls = NoCalls
    /\ BufferUntouched

C8_HeaderImmutable ==
    /\ \A k \in BufferKeys :
          initHeader[k] # <<>> =>
             /\ Len(data[k]) >= 9
             /\ SubSeq(data[k], 1, 9) = initHeader[k]
    /\ (last.op \in AuthenticatedEchoes /\ Len(last.pre) >= 9) =>
          SubSeq(last.post, 1, 9) = SubSeq(last.pre, 1, 9)

\* a successful VendingMachineEcho that changed the payload of an
\* initialized buffer
C8_Witness ==
    /\ last.op = "VendingMachineEcho"
    /\ last.err = "Ok"
    /\ initHeader[last.accts[1].key] # <<>>
    /\ last.post # last.pre

(* ------------------------------- C9 ------------------------------------ *)
\* the error codes of the program (error.rs)
Taxonomy ==
    {"AccountMustBeWritable", "MissingRequiredSignature", "AccountNotInitialized",
     "AccountHasNonZeroData", "InvalidAccountAddress", "InvalidProgramAddress",
     "InvalidAccountData", "InsufficientFunds", "InvalidInstructionInput"}

\* the errors of the runtime's own helpers that the handlers pass on
RuntimeErrors ==
    {"InvalidInstructionData", "NotEnoughAccountKeys", "InvalidSeeds",
     "IncorrectProgramId"}

\* the errors an external call returns
ServiceErrors ==
    {"SystemError.AccountAlreadyInUse", "SystemError.ResultWithNegativeLamports",
     "TokenError.AccountFrozen", "TokenError.InsufficientFunds"}

\* C9: whenever a handler returns an error of one of its own checks, it
\* has written no byte of the buffer and issued no external call; a
\* handler that has issued a call or written the buffer either succeeds or
\* returns the error of the call.
C9_FailFast ==
    /\ last.err \in Taxonomy \cup RuntimeErrors =>
          /\ last.calls = NoCalls
          /\ BufferUntouched
          /\ token = last.tok
    /\ (last.calls # NoCalls \/ last.post # last.pre) =>
          \/ last.err = "Ok"
          \/ /\ last.err \in ServiceErrors
             /\ ~last.calls[Len(last.calls)].ok
             /\ last.post = last.pre

\* an InitializeVendingMachineEcho refused by its last check, the
\* comparison of addresses, before the account is created
C9_Witness ==
    /\ last.op = "InitializeVendingMachineEcho"
    /\ C7_InitializeOtherChecks
    /\ last.err = "InvalidAccountAddress"
    /\ last.accts[1].key \notin created
    /\ lamports[last.accts[3].key.key] >= MinimumBalance(last.size)

(* ------------------------------- C10 ----------------------------------- *)
\* the number of accounts each handler consumes
Consumes(op) ==
    CASE op = "Echo" -> 1
      [] op = "AuthorizedEcho" -> 2
      [] op = "InitializeAuthorizedEcho" -> 4
      [] op = "InitializeVendingMachineEcho" -> 4
      [] op = "VendingMachineEcho" -> 5
      [] OTHER -> 0

\* C10 as stated: every failure yields an error code of the taxonomy.
C10_TaxonomyOnly == last.err # "Ok" => last.err \in Taxonomy

\* C10, amended: every failure yields a code of the taxonomy, except that
\* an undecodable instruction yields InvalidInstructionData, an account
\* list shorter than the handler consumes yields NotEnoughAccountKeys, a
\* stored header whose seeds and bump derive no address yields InvalidSeeds,
\* a token-program account that is not the token program yields
\* IncorrectProgramId, and a failed create-account or token-burn call
\* yields the error of that call.
C10_ErrorCodes ==
    /\ last.op = "Undecodable" => last.err = "InvalidInstructionData"
    /\ Len(last.accts) < Consumes(last.op) => last.err = "NotEnoughAccountKeys"
    /\ (last.op = "AuthorizedEcho" /\ C1_Designated = FALSE /\ Len(last.accts) = 2
        /\ last.accts[1].is_writable /\ last.accts[2].is_signer
        /\ Len(last.pre) >= 9
        /\ OnCurve("authority", last.accts[2].key.key, SubSeq(last.pre, 1, 8),
                   last.pre[9]))
       => last.err = "InvalidSeeds"
    /\ (last.err # "Ok" /\ last.err \notin Taxonomy) =>
          \/ last.op = "Undecodable" /\ last.err = "InvalidInstructionData"
          \/ /\ Len(last.accts) < Consumes(last.op)
             /\ last.err = "NotEnoughAccountKeys"
          \/ /\ last.op = "AuthorizedEcho"
             /\ last.err = "InvalidSeeds"
             /\ OnCurve("authority", last.accts[2].key.key, SubSeq(last.pre, 1, 8),
                        last.pre[9])
          \/ /\ last.op = "VendingMachineEcho"
             /\ last.err = "InvalidSeeds"
             /\ OnCurve("vending_machine", last.accts[4].key.key,
                        SubSeq(last.pre, 2, 9), last.pre[1])
          \/ /\ last.op = "VendingMachineEcho"
             /\ last.err = "IncorrectProgramId"
             /\ last.accts[5].key # TOKEN_PROGRAM_ID
          \/ /\ last.err \in ServiceErrors
             /\ last.calls # NoCalls
             /\ ~last.calls[Len(last.calls)].ok

\* an AuthorizedEcho on a buffer whose stored bump derives no address
C10_Witness ==
    /\ last.op = "AuthorizedEcho"
    /\ Len(last.pre) >= 9
    /\ last.err = "InvalidSeeds"


(* ------------------------------- C11 ----------------------------------- *)
\* the header InitializeVendingMachineEcho stores for the vending machine
\* of mint m and price p
C11_Stored(m, p) ==
    [bump_seed |-> FindProgramAddress("vending_machine", m, ToLeBytes(p)).bump,
     price |-> ToLeBytes(p)]

\* C11: a successful InitializeVendingMachineEcho(price, size) for mint M
\* leaves the header {bump returned by find, price} in the buffer; a later
\* VendingMachineEcho on that buffer with mint M decodes that same header,
\* its derivation from "vending_machine", M, the price and the bump is the
\* buffer's address, and the address check passes; whenever the derived
\* address differs from the address of the account passed as the buffer,
\* the address check fails.
C11_RoundTrip ==
    /\ (last.op = "InitializeVendingMachineEcho" /\ last.err = "Ok") =>
          /\ SubSeq(data[last.accts[1].key], 1, 9) =
                EncodeVendHeader(C11_Stored(last.accts[2].key.key, last.num))
          /\ DecodeVendHeader(data[last.accts[1].key]) =
                C11_Stored(last.accts[2].key.key, last.num)
    /\ (/\ last.op = "VendingMachineEcho"
        /\ C6_EarlierChecksPass
        /\ initHeader[last.accts[1].key] # <<>>
        /\ last.accts[1].key.tag = "vending_machine"
        /\ last.accts[4].key = Key(last.accts[1].key.key))
       => /\ DecodeVendHeader(last.pre) =
                C11_Stored(last.accts[4].key.key, LeValue(last.accts[1].key.seed))
          /\ VendingMachineEchoPda(last.pre, last.accts[4].key) =
                [ok |-> TRUE, addr |-> last.accts[1].key]
          /\ last.err \notin {"InvalidSeeds", "InvalidAccountAddress"}
          /\ (/\ ~AmountLess(last.tok[last.accts[3].key.key].amount,
                             ToLeBytes(LeValue(last.accts[1].key.seed)))
              /\ last.accts[5].key = TOKEN_PROGRAM_ID
              /\ ~last.tok[last.accts[3].key.key].frozen)
             => last.err = "Ok"
    /\ (/\ last.op = "VendingMachineEcho"
        /\ C7_VendingOtherChecks)
       => (last.err = "InvalidAccountAddress"
             <=> VendingMachineEchoPda(last.pre, last.accts[4].key).addr
                    # last.accts[1].key)

\* a VendingMachineEcho that passed the address check on a buffer that an
\* InitializeVendingMachineEcho created
C11_Witness ==
    /\ last.op = "VendingMachineEcho"
    /\ Len(last.accts) = 5
    /\ initHeader[last.accts[1].key] # <<>>
    /\ last.accts[1].key.tag = "vending_machine"
    /\ last.accts[4].key = Key(last.accts[1].key.key)
    /\ last.err = "Ok"

\* the header of a vending machine, stored in an account at another
\* address, fails the address check
C11_WitnessOtherAddress ==
    /\ last.op = "VendingMachineEcho"
    /\ C7_VendingOtherChecks
    /\ last.accts[1].key = PlainBuffer
    /\ VendingMachineEchoPda(last.pre, last.accts[4].key).addr \in VendPdas
    /\ last.err = "InvalidAccountAddress"

(* ------------------------------- C12 ----------------------------------- *)
\* an AuthorizedEcho or VendingMachineEcho, handed all its accounts, on a
\* buffer shorter than the header
C12_OnShortBuffer ==
    /\ last.op \in AuthenticatedEchoes
    /\ Len(last.accts) = Consumes(last.op)
    /\ Len(last.pre) < 9

\* C12 as stated: AuthorizedEcho and VendingMachineEcho on a buffer of
\* length < 9 fail with AccountNotInitialized, with no burn and no write.
C12_ShortBuffer ==
    C12_OnShortBuffer =>
        /\ last.err = "AccountNotInitialized"
        /\ last.calls = NoCalls
        /\ BufferUntouched

\* the error of the checks made before the length of the buffer is looked at
C12_EarlierError ==
    IF ~last.accts[1].is_writable THEN "AccountMustBeWritable"
    ELSE IF last.op = "AuthorizedEcho"
    THEN (IF ~last.accts[2].is_signer THEN "MissingRequiredSignature" ELSE "Ok")
    ELSE IF ~last.accts[3].is_writable THEN "AccountMustBeWritable"
    ELSE IF ~last.accts[2].is_signer THEN "MissingRequiredSignature"
    ELSE IF \/ ~IsMint(last.accts[4].key)
            \/ ~IsTokenAccount(last.accts[3].key)
            \/ last.tok[last.accts[3].key.key].owner # last.accts[2].key
            \/ last.tok[last.accts[3].key.key].mint # last.accts[4].key
    THEN "InvalidAccountData"
    ELSE "Ok"

\* C12, amended: AuthorizedEcho and VendingMachineEcho on a buffer of
\* length < 9 always fail, with no header decode, address derivation, burn
\* or write, and leave the buffer and the token accounts unchanged; the
\* error is AccountNotInitialized when the account checks made before the
\* length check pass (buffer writable, authority or user signed and, for
\* VendingMachineEcho, token account writable, mint and token account
\* decodable, owner and mint matching), and the error of the first of those
\* checks that fails otherwise.
C12_ShortBufferChecked ==
    C12_OnShortBuffer =>
        /\ last.err = IF C12_EarlierError = "Ok" THEN "AccountNotInitialized"
                      ELSE C12_EarlierError
        /\ last.calls = NoCalls
        /\ BufferUntouched
        /\ token = last.tok

\* a VendingMachineEcho that passed every account check, refused because
\* the buffer holds fewer than 9 bytes (but is not empty)
C12_Witness ==
    /\ C12_OnShortBuffer
    /\ last.op = "VendingMachineEcho"
    /\ C12_EarlierError = "Ok"
    /\ Len(last.pre) > 0
    /\ last.data # <<>>
    /\ last.err = "AccountNotInitialized"

(* ------------------------------- C13 ----------------------------------- *)
Initializations == {"InitializeAuthorizedEcho", "InitializeVendingMachineEcho"}

\* the account that has to sign: the authority of AuthorizedEcho, the user
\* of VendingMachineEcho, the payer of an initialization
C13_Signer ==
    IF last.op \in Initializations THEN last.accts[3] ELSE last.accts[2]

\* the first unmet precondition of the account validation, in the order
\* writable, signer, system program
C13_FirstUnmet ==
    IF ~last.accts[1].is_writable THEN "AccountMustBeWritable"
    ELSE IF last.op = "VendingMachineEcho" /\ ~last.accts[3].is_writable
    THEN "AccountMustBeWritable"
    ELSE IF ~C13_Signer.is_signer THEN "MissingRequiredSignature"
    ELSE IF last.op \in Initializations /\ last.accts[4].key # SYSTEM_PROGRAM_ID
    THEN "InvalidProgramAddress"
    ELSE "Ok"

\* C13: for every operation handed the accounts it consumes, a non-writable
\* buffer (or, for VendingMachineEcho, a non-writable user token account)
\* gives AccountMustBeWritable; otherwise a non-signing authority, payer or
\* user gives MissingRequiredSignature; otherwise, for an initialization, a
\* system-program account with another key gives InvalidProgramAddress; the
\* first unmet precondition decides the error whatever the accounts hold,
\* with no call issued and nothing changed, and none of the three errors
\* is returned when all of these preconditions are met.
C13_ValidationOrder ==
    (/\ last.op \in AuthenticatedEchoes \cup Initializations
     /\ Len(last.accts) = Consumes(last.op))
    => /\ C13_FirstUnmet # "Ok" =>
             /\ last.err = C13_FirstUnmet
             /\ last.calls = NoCalls
             /\ BufferUntouched
             /\ token = last.tok
       /\ C13_FirstUnmet = "Ok" =>
             last.err \notin {"AccountMustBeWritable", "MissingRequiredSignature",
                              "InvalidProgramAddress"}

\* a VendingMachineEcho with a read-only token account and an unsigned
\* user, on an initialized buffer: the writability decides the error
C13_Witness ==
    /\ last.op = "VendingMachineEcho"
    /\ Len(last.accts) = 5
    /\ last.accts[1].is_writable
    /\ ~last.accts[3].is_writable
    /\ ~last.accts[2].is_signer
    /\ Len(last.pre) >= 9
    /\ last.err = "AccountMustBeWritable"

(* ------------------------------- C14 ----------------------------------- *)
\* an InitializeVendingMachineEcho, handed all its accounts, that asks for
\* a buffer with no room for a payload
C14_TooSmall ==
    /\ last.op = "InitializeVendingMachineEcho"
    /\ Len(last.accts) = 4
    /\ last.size <= 9

\* no account was created: no call was issued, and the account passed as
\* the buffer exists only if it did before, with the bytes it had
C14_NothingCreated ==
    /\ last.calls = NoCalls
    /\ BufferUntouched
    /\ last.accts[1].key \in created <=> Len(last.pre) > 0

\* what a successful InitializeVendingMachineEcho leaves: the account at
\* the canonical address, created by this call with buffer_size bytes, the
\* header [bump][price, 8 bytes little-endian] and a zero payload
C14_Created ==
    LET k == last.accts[1].key
        found == FindProgramAddress("vending_machine", last.accts[2].key.key,
                                    ToLeBytes(last.num))
    IN /\ last.size > 9
       /\ k = found.addr
       /\ last.pre = <<>>
       /\ k \in created
       /\ Len(last.calls) = 1
       /\ last.calls[1].kind = "create_account"
       /\ last.calls[1].to = k
       /\ last.calls[1].space = last.size
       /\ last.calls[1].ok
       /\ Len(data[k]) = last.size
       /\ data[k][1] = found.bump
       /\ \A i \in 1..3 : data[k][1 + i] = (last.num \div (256 ^ (i - 1))) % 256
       /\ \A i \in 4..8 : data[k][1 + i] = 0   \* prices stay below 2^24
       /\ \A i \in 10..last.size : data[k][i] = 0

\* C14 as stated: with buffer_size <= 9 InitializeVendingMachineEcho fails
\* with InvalidInstructionInput without creating an account; when it
\* succeeds the account exists at the canonical address with buffer_size
\* bytes, the header [bump][price LE] and a payload of zeros.
C14_Initialize ==
    /\ C14_TooSmall => (last.err = "InvalidInstructionInput" /\ C14_NothingCreated)
    /\ (last.op = "InitializeVendingMachineEcho" /\ last.err = "Ok") => C14_Created

\* C14, amended: with buffer_size <= 9 InitializeVendingMachineEcho always
\* fails without creating an account, with InvalidInstructionInput when the
\* account validation passes (buffer writable, payer signed, system program
\* id) and with the error of the first unmet validation otherwise; when it
\* succeeds the account exists at the canonical address with buffer_size
\* bytes, the header [bump][price LE] and a payload of zeros.
C14_InitializeValidated ==
    /\ C14_TooSmall =>
          /\ last.err = IF C13_FirstUnmet = "Ok" THEN "InvalidInstructionInput"
                        ELSE C13_FirstUnmet
          /\ C14_NothingCreated
    /\ (last.op = "InitializeVendingMachineEcho" /\ last.err = "Ok") => C14_Created

\* a successful InitializeVendingMachineEcho
C14_Witness ==
    /\ last.op = "InitializeVendingMachineEcho"
    /\ last.err = "Ok"
    /\ Len(data[last.accts[1].key]) > 9

\* an InitializeVendingMachineEcho refused only for its buffer_size: the
\* address is the canonical one, unused, and the payer could fund it
C14_WitnessTooSmall ==
    /\ C14_TooSmall
    /\ IsMint(last.accts[2].key)
    /\ last.accts[1].key = VendPda(last.accts[2].key.key, last.num)
    /\ last.accts[1].key \notin created
    /\ lamports[last.accts[3].key.key] >= MinimumBalance(last.size)
    /\ last.err = "InvalidInstructionInput"

(* ------------------------------- C15 ----------------------------------- *)
\* the price every vending machine of the model charges
C15_Price == CHOOSE p \in Prices : TRUE

\* C15: a successful VendingMachineEcho issues exactly one burn, for the
\* price stored in the header, from the user token account passed, of the
\* mint passed, with the user as authority, and the token account is
\* debited by exactly the price; a payload is written only after a burn
\* that succeeded; a failed call debits nothing; at every moment the total
\* burned from a token account is the price times the number of
\* successful VendingMachineEcho calls paid from it.
C15_BurnsPrice ==
    /\ (last.op = "VendingMachineEcho" /\ last.err = "Ok") =>
          /\ Len(last.calls) = 1
          /\ last.calls[1].kind = "burn"
          /\ last.calls[1].ok
          /\ last.calls[1].amount = LeValue(SubSeq(last.pre, 2, 9))
          /\ \A i \in 5..9 : last.pre[i] = 0
          /\ last.calls[1].from = last.accts[3].key
          /\ last.calls[1].to = last.accts[4].key
          /\ last.calls[1].owner = last.accts[2].key
          /\ token = [last.tok EXCEPT ![last.accts[3].key.key].amount =
                                        @ - LeValue(SubSeq(last.pre, 2, 9))]
    /\ (last.op = "VendingMachineEcho" /\ last.post # last.pre) =>
          (last.calls # NoCalls /\ last.calls[1].kind = "burn" /\ last.calls[1].ok)
    /\ (last.op # "idle" /\ last.err # "Ok") => token = last.tok
    /\ last.op \notin {"idle", "VendingMachineEcho"} => token = last.tok
    /\ \A t \in TokAccts :
          InitialAmount - token[t].amount = C15_Price * paid[t]

\* the second successful VendingMachineEcho paid from the same token account
C15_Witness ==
    /\ last.op = "VendingMachineEcho"
    /\ last.err = "Ok"
    /\ paid[last.accts[3].key.key] = 2

(* ------------------------------- C16 ----------------------------------- *)
\* the invocation in flight issued an external call that failed
C16_CallFailed == last.calls # NoCalls /\ ~last.calls[Len(last.calls)].ok

\* C16: when the burn fails, VendingMachineEcho returns the failure of the
\* burn and the buffer and the token accounts are unchanged; when
\* create_account fails (address in use, payer short of lamports),
\* InitializeVendingMachineEcho returns that failure, the account is as it
\* was and no header is recorded for an account that was not created; no
\* state has a buffer changed by a VendingMachineEcho whose burn did not
\* succeed, a buffer changed by an initialization whose create_account
\* did not succeed, a header on an account never created, or a written
\* vending-machine payload with no payment made for it.
C16_Atomic ==
    /\ (last.op = "VendingMachineEcho" /\ C16_CallFailed) =>
          /\ last.calls[1].kind = "burn"
          /\ last.err = IF last.tok[last.accts[3].key.key].frozen
                        THEN "TokenError.AccountFrozen"
                        ELSE "TokenError.InsufficientFunds"
          /\ BufferUntouched
          /\ token = last.tok
    /\ (last.op = "InitializeVendingMachineEcho" /\ C16_CallFailed) =>
          /\ last.calls[1].kind = "create_account"
          /\ last.err = IF Len(last.pre) > 0
                        THEN "SystemError.AccountAlreadyInUse"
                        ELSE "SystemError.ResultWithNegativeLamports"
          /\ BufferUntouched
          /\ Len(last.pre) = 0 =>
                /\ last.accts[1].key \notin created
                /\ initHeader[last.accts[1].key] = <<>>
    /\ (/\ last.op = "VendingMachineEcho"
        /\ Len(last.accts) >= 1
        /\ data[last.accts[1].key] # last.pre)
       => (last.calls # NoCalls /\ last.calls[1].kind = "burn" /\ last.calls[1].ok)
    /\ (/\ last.op \in Initializations
        /\ Len(last.accts) >= 1
        /\ data[last.accts[1].key] # last.pre) =>
          /\ last.calls # NoCalls
          /\ last.calls[1].kind = "create_account"
          /\ last.calls[1].ok
    /\ \A k \in BufferKeys :
          /\ initHeader[k] # <<>> => k \in created
          /\ (k \in VendPdas /\ \E i \in 10..Len(data[k]) : data[k][i] # 0) =>
                \E t \in TokAccts : paid[t] > 0 /\ token[t].mint = Key(k.key)

\* a VendingMachineEcho that passed every check and whose burn the token
\* program refused
C16_Witness ==
    /\ last.op = "VendingMachineEcho"
    /\ C16_CallFailed
    /\ last.data # <<>>
    /\ last.err = "TokenError.AccountFrozen"

\* an InitializeVendingMachineEcho whose create_account the system program
\* refused for want of lamports
C16_WitnessCreate ==
    /\ last.op = "InitializeVendingMachineEcho"
    /\ C16_CallFailed
    /\ last.err = "SystemError.ResultWithNegativeLamports"

(* ------------------------------- C17 ----------------------------------- *)
\* in this step the bytes of a buffer account change only for the account
\* passed first to a handler that returned Ok, and no account comes to
\* exist but that one
C17_OnlyBufferWritten ==
    /\ \A k \in BufferKeys :
          (data'[k] # data[k] \/ (k \in created' /\ k \notin created)) =>
             /\ last'.op \notin {"idle", "Undecodable"}
             /\ Len(last'.accts) = Consumes(last'.op)
             /\ k = last'.accts[1].key
             /\ last'.err = "Ok"
    /\ initHeader' # initHeader => last'.op \in Initializations

\* C17 as stated: in any call only the account passed in the buffer
\* position is changed, and only when the call succeeds; every other
\* account handed to the handler, the user token account included, holds
\* after the call what it held before.
C17_Frame ==
    [][C17_OnlyBufferWritten /\ token' = token]_vars

\* C17, amended: in any call, of the buffer accounts only the one passed
\* in the buffer position is changed, and only when the call succeeds;
\* the token accounts are unchanged except that a successful
\* VendingMachineEcho leaves the user token account passed to it with the
\* header's price less, through the burn it invokes, every other field and
\* every other token account being unchanged.
C17_FrameExceptBurn ==
    [][/\ C17_OnlyBufferWritten
       /\ token' # token =>
             /\ last'.op = "VendingMachineEcho"
             /\ last'.err = "Ok"
             /\ token' = [token EXCEPT ![last'.accts[3].key.key].amount =
                                         @ - LeValue(SubSeq(last'.pre, 2, 9))]]_vars

\* a successful VendingMachineEcho that wrote its buffer and was paid from
\* the user token account, the other token account holding what it held
C17_Witness ==
    /\ last.op = "VendingMachineEcho"
    /\ last.err = "Ok"
    /\ last.post # last.pre
    /\ token # last.tok
    /\ \E t \in TokAccts : token[t] = last.tok[t]

(* ------------------------------- C18 ----------------------------------- *)
\* the invocation in flight is an InitializeVendingMachineEcho for a mint
\* and a price whose vending machine (the account k) exists already
C18_Again(k) ==
    /\ last.op = "InitializeVendingMachineEcho"
    /\ Len(last.accts) = 4
    /\ IsMint(last.accts[2].key)
    /\ k = VendPda(last.accts[2].key.key, last.num)

\* every check InitializeVendingMachineEcho makes before create_account passes
C18_ChecksPass(k) ==
    /\ C13_FirstUnmet = "Ok"
    /\ last.size > 9
    /\ last.accts[1].key = k

C18_FailedAtCreation ==
    /\ last.err = "SystemError.AccountAlreadyInUse"
    /\ Len(last.calls) = 1
    /\ last.calls[1].kind = "create_account"
    /\ ~last.calls[1].ok

\* C18 as stated: once InitializeVendingMachineEcho has succeeded for a
\* (mint, price), every later InitializeVendingMachineEcho for the same
\* (mint, price) fails at account creation with address-already-in-use and
\* leaves the header and the payload of the existing buffer unchanged.
C18_InitializeOnce ==
    [][\A k \in VendPdas :
          (initHeader[k] # <<>> /\ C18_Again(k)')
          => /\ C18_FailedAtCreation'
             /\ data'[k] = data[k]
             /\ initHeader'[k] = initHeader[k]]_vars

\* C18, amended: once InitializeVendingMachineEcho has succeeded for a
\* (mint, price), every later InitializeVendingMachineEcho for the same
\* (mint, price) fails and leaves the header and the payload of the
\* existing buffer, and every other account, unchanged; it fails at
\* account creation with address-already-in-use when every earlier check
\* passes (validation, buffer_size > 9, the buffer passed is the vending
\* machine's account), and at the first failing check otherwise; so a
\* buffer is never reset to the zero-payload state.
C18_InitializeOnceChecked ==
    [][\A k \in VendPdas :
          (initHeader[k] # <<>> /\ C18_Again(k)')
          => /\ last'.err # "Ok"
             /\ data' = data
             /\ initHeader' = initHeader
             /\ created' = created
             /\ lamports' = lamports
             /\ C18_ChecksPass(k)' <=> C18_FailedAtCreation']_vars

\* a second InitializeVendingMachineEcho for a vending machine whose
\* payload has been written, refused at account creation
C18_Witness ==
    /\ last.op = "InitializeVendingMachineEcho"
    /\ Len(last.accts) = 4
    /\ initHeader[last.accts[1].key] # <<>>
    /\ Len(last.pre) > 9
    /\ last.pre[10] # 0
    /\ last.err = "SystemError.AccountAlreadyInUse"
    /\ data[last.accts[1].key] = last.pre

(* ------------------------------- C19 ----------------------------------- *)
\* the token account passed is owned by the user passed and is of the
\* mint passed
C19_TokensMatch ==
    /\ IsMint(last.accts[4].key)
    /\ IsTokenAccount(last.accts[3].key)
    /\ last.tok[last.accts[3].key.key].owner = last.accts[2].key
    /\ last.tok[last.accts[3].key.key].mint = last.accts[4].key

\* the address of the buffer passed is derived from the key of the mint passed
C19_MintBound ==
    /\ last.accts[1].key.tag = "vending_machine"
    /\ last.accts[1].key.key = last.accts[4].key.key

C19_NoBurnNoWrite ==
    /\ last.calls = NoCalls
    /\ BufferUntouched
    /\ token = last.tok

\* C19 as stated: a VendingMachineEcho succeeds only if the token
\* account's owner is the signing user, its mint is the mint passed and
\* the buffer's address derives from that mint; otherwise it fails, with
\* InvalidAccountData for an owner or mint mismatch and with
\* InvalidAccountAddress for a mint the buffer is not bound to, with no
\* burn and no write (stated for the calls that pass the checks the claim
\* does not speak of: account validation, a buffer of 9 bytes or more, a
\* balance that covers the stored price).
C19_MintBinding ==
    (/\ last.op = "VendingMachineEcho"
     /\ Len(last.accts) = 5
     /\ C13_FirstUnmet = "Ok"
     /\ Len(last.pre) >= 9
     /\ IsTokenAccount(last.accts[3].key)
     /\ ~AmountLess(last.tok[last.accts[3].key.key].amount, SubSeq(last.pre, 2, 9)))
    =>
        /\ last.err = "Ok" =>
              (last.accts[2].is_signer /\ C19_TokensMatch /\ C19_MintBound)
        /\ ~C19_TokensMatch =>
              (last.err = "InvalidAccountData" /\ C19_NoBurnNoWrite)
        /\ (C19_TokensMatch /\ ~C19_MintBound) =>
              (last.err = "InvalidAccountAddress" /\ C19_NoBurnNoWrite)

\* C19, amended: a VendingMachineEcho succeeds only if the token account's
\* owner is the signing user, its mint is the mint passed and the buffer's
\* address derives from that mint; otherwise it fails with no burn and no
\* write. The error is InvalidAccountData for an owner or mint mismatch
\* when the account validation passes; for a mint the buffer is not bound
\* to, when every earlier check passes and the balance covers the stored
\* price, it is InvalidSeeds if the stored price and bump derive no address
\* with that mint and InvalidAccountAddress if they derive another address.
C19_MintBindingChecked ==
    (last.op = "VendingMachineEcho" /\ Len(last.accts) = 5) =>
        /\ last.err = "Ok" =>
              (last.accts[2].is_signer /\ C19_TokensMatch /\ C19_MintBound)
        /\ (~C19_TokensMatch \/ ~C19_MintBound \/ ~last.accts[2].is_signer) =>
              (last.err # "Ok" /\ C19_NoBurnNoWrite)
        /\ (C13_FirstUnmet = "Ok" /\ ~C19_TokensMatch) =>
              last.err = "InvalidAccountData"
        /\ (/\ C6_EarlierChecksPass
            /\ ~AmountLess(last.tok[last.accts[3].key.key].amount,
                           SubSeq(last.pre, 2, 9))
            /\ ~C19_MintBound)
           => last.err = IF OnCurve("vending_machine", last.accts[4].key.key,
                                    SubSeq(last.pre, 2, 9), last.pre[1])
                         THEN "InvalidSeeds" ELSE "InvalidAccountAddress"

\* a user signing for a write on an existing vending machine with tokens
\* of its mint that another user owns
C19_Witness ==
    /\ last.op = "VendingMachineEcho"
    /\ Len(last.accts) = 5
    /\ C13_FirstUnmet = "Ok"
    /\ initHeader[last.accts[1].key] # <<>>
    /\ C19_MintBound
    /\ last.tok[last.accts[3].key.key].mint = last.accts[4].key
    /\ last.tok[last.accts[3].key.key].owner # last.accts[2].key
    /\ last.err = "InvalidAccountData"

\* tokens of another mint offered to an existing vending machine, with
\* which the stored price and bump derive no address
C19_WitnessNoAddress ==
    /\ last.op = "VendingMachineEcho"
    /\ C6_EarlierChecksPass
    /\ initHeader[last.accts[1].key] # <<>>
    /\ ~C19_MintBound
    /\ last.err = "InvalidSeeds"

(* ------------------------------- C20 ----------------------------------- *)
Echoes == {"Echo", "AuthorizedEcho", "VendingMachineEcho"}

\* C20: no Echo, AuthorizedEcho or VendingMachineEcho call, successful or
\* failed, whatever the length of its data, changes the length of any
\* account or leaves bytes beyond the length the buffer had; an account's
\* length changes only when an initialization creates it, with the size
\* asked for, so after any sequence of echo operations every buffer has
\* the length it was created with.
C20_LengthKept ==
    [][/\ last'.op \in Echoes =>
             /\ DOMAIN last'.post = 1..Len(last'.pre)
             /\ \A k \in BufferKeys : Len(data'[k]) = Len(data[k])
       /\ \A k \in BufferKeys :
             Len(data'[k]) # Len(data[k]) =>
                /\ last'.op \in Initializations
                /\ last'.err = "Ok"
                /\ k = last'.accts[1].key
                /\ k \notin created
                /\ Len(data[k]) = 0
                /\ Len(data'[k]) = last'.size]_vars

\* a successful VendingMachineEcho of data longer than the payload region
C20_Witness ==
    /\ last.op = "VendingMachineEcho"
    /\ last.err = "Ok"
    /\ Len(last.data) > Len(last.pre) - 9
    /\ Len(data[last.accts[1].key]) = Len(last.pre)

====
